---- MODULE Spec2Model ----
(***************************************************************************)
(* The LegibleSync engine (realworld-backend-adonis/src/engine/Engine.ts)  *)
(* as a state machine.  The engine is an async JavaScript class: code      *)
(* between two awaits runs atomically, and callers that do not await each  *)
(* invoke (Promise.all in server.ts) interleave at the awaits.  Each       *)
(* caller is a task whose pc names the await it is suspended at; the pcs   *)
(* "rule" and "then" are positions inside one synchronous stretch, during  *)
(* which no other task moves.                                              *)
(***************************************************************************)
EXTENDS Integers, Sequences, FiniteSets, TLC

(***************************************************************************)
(* Bounds of the model.                                                    *)
(***************************************************************************)
MaxRecords == 4
MaxRules == 3
MaxCalls == 2

\* Two callers, so that two outermost invokes can overlap.  Callers and
\* flow ids are interchangeable: c2 calls only while c1 is inside a call,
\* and only c2 uses the second flow.
Callers == {"c1", "c2"}
FlowsOf(p) == IF p = "c1" THEN {"f1"} ELSE {"f1", "f2"}

(***************************************************************************)
(* JavaScript values and objects.  A value carries its type; an object is  *)
(* the sequence of its <<key, value>> pairs in insertion order, which is   *)
(* the order JSON.stringify and the spread operator see.                   *)
(***************************************************************************)
Num(n) == [k |-> "num", n |-> n, s |-> "", o |-> <<>>]
Str(s) == [k |-> "str", n |-> 0, s |-> s, o |-> <<>>]
Bool(b) == [k |-> "bool", n |-> IF b THEN 1 ELSE 0, s |-> "", o |-> <<>>]
Obj(o) == [k |-> "obj", n |-> 0, s |-> "", o |-> o]
Undefined == [k |-> "undef", n |-> 0, s |-> "", o |-> <<>>]
\* a function value, such as () => uuid() in a then-template
Fn(name) == [k |-> "fn", n |-> 0, s |-> name, o |-> <<>>]

\* The values JavaScript treats as false in a condition.
Falsy(v) ==
  \/ v.k = "undef"
  \/ v.k = "num" /\ v.n = 0
  \/ v.k = "str" /\ v.s = ""
  \/ v.k = "bool" /\ v.n = 0

Keys(obj) == {obj[i][1] : i \in 1..Len(obj)}
Has(obj, key) == key \in Keys(obj)
Get(obj, key) ==
  IF Has(obj, key)
  THEN obj[CHOOSE i \in 1..Len(obj) : obj[i][1] = key][2]
  ELSE Undefined

SetKey(obj, key, v) ==
  IF Has(obj, key)
  THEN [i \in 1..Len(obj) |-> IF obj[i][1] = key THEN <<key, v>> ELSE obj[i]]
  ELSE Append(obj, <<key, v>>)

\* a key already in a keeps its value
KeepExisting(a, b) ==
  LET New(pair) == ~Has(a, pair[1]) IN a \o SelectSeq(b, New)

\* { ...a, ...b }
RECURSIVE Spread(_, _)
Spread(a, b) ==
  IF b = <<>> THEN a ELSE Spread(SetKey(a, Head(b)[1], Head(b)[2]), Tail(b))

\* JSON.stringify(input): the pairs in insertion order, a pair whose value is
\* undefined or a function left out.
RECURSIVE JSONstringify(_)
JSONstringify(obj) ==
  IF obj = <<>> THEN <<>>
  ELSE IF Head(obj)[2].k \in {"undef", "fn"} THEN JSONstringify(Tail(obj))
  ELSE <<Head(obj)>> \o JSONstringify(Tail(obj))

(***************************************************************************)
(* Concepts.  execute returns an object, a primitive, or throws.           *)
(***************************************************************************)
RetObj(o) == [kind |-> "obj", obj |-> o, prim |-> Undefined, msg |-> ""]
RetPrim(v) == [kind |-> "prim", obj |-> <<>>, prim |-> v, msg |-> ""]
Throw(m) == [kind |-> "throw", obj |-> <<>>, prim |-> Undefined, msg |-> m]

\* Account keeps a balance per account id; open and credit are its actions.
AccountExecute(action, input, bal) ==
  LET id == Get(input, "id").s IN
  CASE action = "open" ->
         IF id \in DOMAIN bal
         THEN [res |-> Throw("account exists"), st |-> bal]
         ELSE [res |-> RetObj(<< <<"id", Str(id)>>, <<"balance", Get(input, "balance")>> >>),
               st |-> bal @@ (id :> Get(input, "balance").n)]
    [] action = "credit" ->
         IF id \notin DOMAIN bal
         THEN [res |-> Throw("account not found"), st |-> bal]
         ELSE LET new == bal[id] + Get(input, "amount").n IN
              [res |-> RetObj(<< <<"id", Str(id)>>, <<"balance", Num(new)>> >>),
               st |-> [bal EXCEPT ![id] = new]]
    [] OTHER -> [res |-> Throw("unknown action"), st |-> bal]

\* Audit counts the entries logged and returns the primitive true.
AuditExecute(action, input, n) ==
  IF action = "log"
  THEN [res |-> RetPrim(Bool(TRUE)), st |-> n + 1]
  ELSE [res |-> Throw("unknown action"), st |-> n]

\* impl.execute(action, input) on the states of the concepts.
Execute(concept, action, input, cs) ==
  IF concept = "Account"
  THEN LET r == AccountExecute(action, input, cs.Account) IN
       [res |-> r.res, st |-> [cs EXCEPT !.Account = r.st]]
  ELSE LET r == AuditExecute(action, input, cs.Audit) IN
       [res |-> r.res, st |-> [cs EXCEPT !.Audit = r.st]]

ConceptOrder == <<"Account", "Audit">>

(***************************************************************************)
(* Rules.  A pattern's input and output are its constraints (empty when    *)
(* the rule gives none); where names the rule's filter.                    *)
(***************************************************************************)
Pattern(c, a, i, o) == [concept |-> c, action |-> a, input |-> i, output |-> o]
Invocation(c, a, i) == [concept |-> c, action |-> a, input |-> i]

\* on Account/open with balance < 100, credit +10
RuleA ==
  [name |-> "A",
   when |-> << Pattern("Account", "open", <<>>, <<>>) >>,
   where |-> "balanceLt100",
   then |-> << Invocation("Account", "credit",
                          << <<"id", Str("?id")>>, <<"amount", Num(10)>> >>) >>]

\* on Account/credit, log the account
RuleB ==
  [name |-> "B",
   when |-> << Pattern("Account", "credit", <<>>, <<>>) >>,
   where |-> "none",
   then |-> << Invocation("Audit", "log", << <<"id", Str("?id")>> >>) >>]

\* on Account/open of a tagged account, log it; its filter reads a field of
\* bindings.meta and throws a TypeError when meta is undefined
RuleT ==
  [name |-> "T",
   when |-> << Pattern("Account", "open", <<>>, <<>>) >>,
   where |-> "metaTag",
   then |-> << Invocation("Audit", "log", << <<"id", Str("?id")>> >>) >>]

\* on Account/credit, credit the same account by the same amount again: the
\* rule re-issues the invocation that triggered it
RuleL ==
  [name |-> "L",
   when |-> << Pattern("Account", "credit", <<>>, <<>>) >>,
   where |-> "none",
   then |-> << Invocation("Account", "credit",
                          << <<"id", Str("?id")>>, <<"amount", Str("?amount")>> >>) >>]

\* on Audit/log, open the logged account: with A and B, a cycle of rules
RuleC ==
  [name |-> "C",
   when |-> << Pattern("Audit", "log", <<>>, <<>>) >>,
   where |-> "none",
   then |-> << Invocation("Account", "open",
                          << <<"id", Str("?id")>>, <<"balance", Num(0)>> >>) >>]

\* on Account/credit, log the account and then credit a bonus of 5
RuleM ==
  [name |-> "M",
   when |-> << Pattern("Account", "credit", <<>>, <<>>) >>,
   where |-> "none",
   then |-> << Invocation("Audit", "log", << <<"id", Str("?id")>> >>),
               Invocation("Account", "credit",
                          << <<"id", Str("?id")>>, <<"amount", Num(5)>> >>) >>]

\* on Account/open, log the account under a generated entry id, as the
\* RegisterUser rule does with user: () => uuid(), and with a nested
\* object naming the origin of the entry
RuleG ==
  [name |-> "G",
   when |-> << Pattern("Account", "open", <<>>, <<>>) >>,
   where |-> "none",
   then |-> << Invocation("Audit", "log",
                          << <<"entry", Fn("uuid")>>, <<"id", Str("?id")>>,
                             <<"origin", Obj(<< <<"rule", Str("G")>>,
                                                <<"account", Str("?id")>> >>)>> >>) >>]

\* on an Account/open together with an Account/credit, log the account: a
\* rule with two when-patterns
RuleP ==
  [name |-> "P",
   when |-> << Pattern("Account", "open", <<>>, <<>>),
               Pattern("Account", "credit", <<>>, <<>>) >>,
   where |-> "none",
   then |-> << Invocation("Audit", "log", << <<"id", Str("?id")>> >>) >>]

\* on Audit/log of an entry that names its origin, credit the account the
\* origin names: the template reads fields of a nested bound object, at
\* its top level and inside nested objects
RuleN ==
  [name |-> "N",
   when |-> << Pattern("Audit", "log", <<>>, <<>>) >>,
   where |-> "none",
   then |-> << Invocation("Account", "credit",
                          << <<"id", Str("?origin.account")>>, <<"amount", Num(5)>>,
                             <<"note", Obj(<< <<"from", Str("?origin.rule")>>,
                                              <<"by", Str("N")>>,
                                              <<"ref", Obj(<< <<"acct", Str("?id")>>,
                                                              <<"ok", Str("?result")>> >>)>> >>)>> >>) >>]

\* on Account/credit, credit the same account by the same amount again,
\* the fields of the input written in the other order
RuleR ==
  [name |-> "R",
   when |-> << Pattern("Account", "credit", <<>>, <<>>) >>,
   where |-> "none",
   then |-> << Invocation("Account", "credit",
                          << <<"amount", Str("?amount")>>, <<"id", Str("?id")>> >>) >>]

RuleUniverse == {RuleA, RuleB, RuleT, RuleL, RuleC, RuleM, RuleG, RuleP, RuleN, RuleR}

\* The registration sequences of the model, and their prefixes.
RuleLists ==
  { <<RuleA, RuleB, RuleT>>, <<RuleB, RuleA, RuleL>>,
    <<RuleT, RuleA>>, <<RuleA, RuleT>>, <<RuleL>>, <<RuleA, RuleL>>,
    <<RuleA, RuleB, RuleC>>, <<RuleM>>, <<RuleG, RuleN>>, <<RuleA, RuleP>>, <<RuleR>> }

IsPrefix(s, t) == Len(s) <= Len(t) /\ SubSeq(t, 1, Len(s)) = s

\* sync.where.filter(bindings): "pass", "reject" or "throw"
FilterEval(where, b) ==
  CASE where = "balanceLt100" ->
         IF Get(b, "balance").k = "num" /\ Get(b, "balance").n < 100
         THEN "pass" ELSE "reject"
    [] where = "metaTag" ->
         IF Get(b, "meta").k = "undef" THEN "throw"
         ELSE IF Get(b, "meta").k = "obj"
                 /\ Get(Get(b, "meta").o, "tag") = Str("vip")
         THEN "pass" ELSE "reject"
    [] OTHER -> "pass"

(***************************************************************************)
(* The engine's pure helpers.                                              *)
(***************************************************************************)
\* `${concept}:${action}`
IndexKey(concept, action) == concept \o ":" \o action

\* `${concept}:${action}:${JSON.stringify(input)}`
ActionKey(concept, action, input) ==
  <<IndexKey(concept, action), JSONstringify(input)>>

\* a === b for a value of a record and a value written in a rule: equal
\* primitives; an object or a function of a rule is never the same
\* reference as one of a record
StrictEquals(a, b) == a = b /\ a.k \notin {"obj", "fn"}

matchRecord(obj, pattern) ==
  \A i \in 1..Len(pattern) : StrictEquals(Get(obj, pattern[i][1]), pattern[i][2])

\* path.split(".")
RECURSIVE SplitDot(_)
SplitDot(path) ==
  IF \A i \in 1..Len(path) : SubSeq(path, i, i) # "."
  THEN <<path>>
  ELSE LET d == CHOOSE i \in 1..Len(path) :
                  /\ SubSeq(path, i, i) = "."
                  /\ \A j \in 1..(i - 1) : SubSeq(path, j, j) # "."
       IN <<SubSeq(path, 1, d - 1)>> \o SplitDot(SubSeq(path, d + 1, Len(path)))

\* current?.[key], folded over the keys of the path
RECURSIVE WalkPath(_, _)
WalkPath(cur, keys) ==
  IF keys = <<>> THEN cur
  ELSE WalkPath(IF cur.k = "obj" THEN Get(cur.o, Head(keys)) ELSE Undefined,
                Tail(keys))

\* bindings[path], the path taken as one key
TopLevelOnly(obj, path) == Get(obj, path)

getNestedValue(obj, path) == WalkPath(Obj(obj), SplitDot(path))

RECURSIVE replaceVariables(_, _)

\* replaceVariables on one value of a template
ReplaceValue(v, bindings) ==
  IF v.k = "str" /\ Len(v.s) > 0 /\ SubSeq(v.s, 1, 1) = "?"
  THEN LET varName == SubSeq(v.s, 2, Len(v.s)) IN
       IF ~Falsy(Get(bindings, varName))
       THEN Get(bindings, varName)
       ELSE getNestedValue(bindings, varName)
  ELSE IF v.k = "obj" THEN Obj(replaceVariables(v.o, bindings))
  ELSE v

\* replaceVariables on a template object
replaceVariables(obj, bindings) ==
  [i \in 1..Len(obj) |-> <<obj[i][1], ReplaceValue(obj[i][2], bindings)>>]


(***************************************************************************)
(* State.  The first eight variables are the fields of LegibleEngine; a    *)
(* record's id is its position in actions, and actionIndex holds ids.      *)
(* conceptState is the state the registered concepts own.  task is each    *)
(* caller's position in invoke / triggerSyncs / tryFireSync with the       *)
(* locals of those calls.  The last three observe the run: executed is    *)
(* the records whose execute was called, sweepNo counts the sweeps         *)
(* started, and issued holds the then-invocations made, each with its      *)
(* rule, the matched records of its combination, its index in then, the    *)
(* record it appended and the sweep it was made in.  warnings is what       *)
(* registerSync wrote with console.warn, and queried is what the last      *)
(* call of getActionsByFlow returned, until the next invoke.               *)
(***************************************************************************)
VARIABLES concepts, actions, syncs, syncTriggering, firedSyncs,
          invokedActions, syncGraph, actionIndex,
          conceptState, task, executed, issued, sweepNo, warnings, queried

\* The event bus of spec-to-code.  flows is the field of EventBus: the
\* events of each started flow, by flow id.  busLog observes the calls made
\* to the bus, in order, and checked is what the last call of
\* checkFlowConditions was given and returned, until the next call that
\* changes the bus.
VARIABLES flows, busLog, checked

engineState == <<concepts, actions, syncs, syncTriggering, firedSyncs,
                 invokedActions, syncGraph, actionIndex,
                 conceptState, task, executed, issued, sweepNo, warnings, queried>>

busVars == <<flows, busLog, checked>>

vars == <<engineState, busVars>>

engineVars == <<concepts, actions, syncs, syncTriggering, firedSyncs,
                invokedActions, syncGraph, actionIndex>>

NoOutput == [defined |-> FALSE, obj |-> <<>>]
Out(o) == [defined |-> TRUE, obj |-> o]

NoResult == [kind |-> "none", msg |-> ""]

IdleTask(result) ==
  [pc |-> "idle", outer |-> 0, phase |-> "none", pend |-> Throw(""),
   err |-> "", ri |-> 0, matching |-> <<>>, combos |-> <<>>, ci |-> 0,
   ti |-> 0, fired |-> FALSE, nrec |-> 0, ret |-> "none",
   nsweeps |-> 0, attempted |-> <<>>, result |-> result]

\* Some task is inside a synchronous stretch of tryFireSync.
Busy == \E p \in Callers : task[p].pc \in {"rule", "then"}

NoQuery == [flow |-> "", records |-> <<>>]

NoCheck == [flowId |-> "", conditions |-> <<>>,
            result |-> [matched |-> FALSE, bindings |-> <<>>]]

Init ==
  /\ concepts = {}
  /\ actions = <<>>
  /\ syncs = <<>>
  /\ syncTriggering = FALSE
  /\ firedSyncs = {}
  /\ invokedActions = {}
  /\ syncGraph = <<>>
  /\ actionIndex = <<>>
  /\ conceptState = [Account |-> <<>>, Audit |-> 0]
  /\ task = [p \in Callers |-> IdleTask(NoResult)]
  /\ executed = {}
  /\ issued = {}
  /\ sweepNo = 0
  /\ warnings = <<>>
  /\ queried = NoQuery
  /\ flows = <<>>
  /\ busLog = <<>>
  /\ checked = NoCheck

(***************************************************************************)
(* Registration, done at startup before the first invoke.                  *)
(***************************************************************************)
RegisterConcept(name) ==
  /\ actions = <<>> /\ syncs = <<>>
  /\ Cardinality(concepts) < Len(ConceptOrder)
  /\ name = ConceptOrder[Cardinality(concepts) + 1]
  /\ concepts' = concepts \cup {name}
  /\ UNCHANGED <<actions, syncs, syncTriggering, firedSyncs, invokedActions,
                 syncGraph, warnings, queried, actionIndex, conceptState, task, executed, issued, sweepNo>>

\* A Set<string> in insertion order: add keeps the first occurrence.
SetAdd(set, x) ==
  IF \E i \in 1..Len(set) : set[i] = x THEN set ELSE Append(set, x)

\* The inner loops of updateGraph: for each then-invocation t, for each rule
\* j of list other than sync, add j when one of its when-patterns has the
\* concept and action of t.
RECURSIVE GraphTargets(_, _, _, _, _)
GraphTargets(edges, sync, list, t, j) ==
  IF t > Len(sync.then) THEN edges
  ELSE IF j > Len(list) THEN GraphTargets(edges, sync, list, t + 1, 1)
  ELSE IF /\ list[j].name # sync.name
          /\ \E w \in 1..Len(list[j].when) :
               /\ list[j].when[w].concept = sync.then[t].concept
               /\ list[j].when[w].action = sync.then[t].action
       THEN GraphTargets(SetAdd(edges, list[j].name), sync, list, t, j + 1)
       ELSE GraphTargets(edges, sync, list, t, j + 1)

updateGraph(graph, sync, list) ==
  LET g0 == IF sync.name \in DOMAIN graph THEN graph
            ELSE graph @@ (sync.name :> <<>>)
  IN [g0 EXCEPT ![sync.name] = GraphTargets(@, sync, list, 1, 1)]

\* The depth-first search of detectCycles.  st holds visited, recStack and
\* cycles, and found is the value dfs returns.  dfs is entered at most once
\* per node past its two early returns, which bounds the recursion.
RECURSIVE dfs(_, _, _)
RECURSIVE dfsNeighbors(_, _, _, _)
dfs(graph, node, st) ==
  IF node \in st.recStack
  THEN [st EXCEPT !.cycles = Append(@, node), !.found = TRUE]
  ELSE IF node \in st.visited THEN [st EXCEPT !.found = FALSE]
  ELSE LET entered == [st EXCEPT !.visited = @ \cup {node},
                                 !.recStack = @ \cup {node}]
           neighbors == IF node \in DOMAIN graph THEN graph[node] ELSE <<>>
       IN dfsNeighbors(graph, node, neighbors, entered)

dfsNeighbors(graph, node, neighbors, st) ==
  IF neighbors = <<>>
  THEN [st EXCEPT !.recStack = @ \ {node}, !.found = FALSE]
  ELSE LET sub == dfs(graph, Head(neighbors), st)
       IN IF sub.found
          THEN [sub EXCEPT !.cycles = Append(@, node)]
          ELSE dfsNeighbors(graph, node, Tail(neighbors), sub)

RECURSIVE detectFrom(_, _, _, _)
detectFrom(graph, list, i, st) ==
  IF i > Len(list) THEN st.cycles
  ELSE IF list[i].name \in st.visited THEN detectFrom(graph, list, i + 1, st)
  ELSE LET sub == dfs(graph, list[i].name, st)
       IN IF sub.found THEN sub.cycles
          ELSE detectFrom(graph, list, i + 1, sub)

detectCycles(graph, list) ==
  detectFrom(graph, list, 1,
             [visited |-> {}, recStack |-> {}, cycles |-> <<>>, found |-> FALSE])

\* console.warn of registerSync: the names joined in the warning, when any
Warn(log, cycles) == IF Len(cycles) > 0 THEN Append(log, cycles) ELSE log

RegisterSync(sync) ==
  /\ actions = <<>>
  /\ Len(syncs) < MaxRules
  /\ \A i \in 1..Len(syncs) : syncs[i].name # sync.name
  /\ \E list \in RuleLists : IsPrefix(Append(syncs, sync), list)
  /\ syncs' = Append(syncs, sync)
  /\ syncGraph' = updateGraph(syncGraph, sync, Append(syncs, sync))
  /\ warnings' = Warn(warnings, detectCycles(syncGraph', syncs'))
  /\ UNCHANGED queried
  /\ UNCHANGED <<concepts, actions, syncTriggering, firedSyncs, invokedActions,
                 actionIndex, conceptState, task, executed, issued, sweepNo>>


(***************************************************************************)
(* invoke, up to its await of impl.execute.                                *)
(***************************************************************************)
NewRecord(concept, action, input, flow, syncTriggered) ==
  [concept |-> concept, action |-> action, input |-> input,
   output |-> NoOutput, flow |-> flow, syncEdges |-> {},
   syncTriggered |-> syncTriggered]

IndexAdd(index, key, id) ==
  IF key \in DOMAIN index
  THEN [index EXCEPT ![key] = Append(@, id)]
  ELSE index @@ (key :> <<id>>)

\* if (!syncTriggered) this.invokedActions.clear()
ClearedOnEntry(inv, syncTriggered) == IF ~syncTriggered THEN {} ELSE inv

\* if (this.invokedActions.has(actionKey)) return { skipped: true }
LoopSkips(key, inv) == key \in inv

\* How the synchronous part of invoke ends: the concept is not registered
\* (throws), the call is skipped, or execute is called.
InvokeOutcome(concept, action, input, syncTriggered) ==
  IF concept \notin concepts THEN "notFound"
  ELSE IF LoopSkips(ActionKey(concept, action, input),
                    ClearedOnEntry(invokedActions, syncTriggered))
  THEN "skipped"
  ELSE "execute"

\* The log after invoke has appended its record.
LogAfterInvoke(log, concept, action, input, flow, syncTriggered) ==
  Append(log, NewRecord(concept, action, input, flow, syncTriggered))

\* The engine and concept state after the synchronous part of invoke.
InvokeCall(concept, action, input, flow, syncTriggered) ==
  LET id == Len(actions) + 1
      how == InvokeOutcome(concept, action, input, syncTriggered)
      inv == ClearedOnEntry(invokedActions, syncTriggered)
  IN /\ actions' = LogAfterInvoke(actions, concept, action, input, flow, syncTriggered)
     /\ actionIndex' = IndexAdd(actionIndex, IndexKey(concept, action),
                                Len(LogAfterInvoke(actions, concept, action, input,
                                                   flow, syncTriggered)))
     /\ invokedActions' =
          IF how = "execute"
          THEN inv \cup {ActionKey(concept, action, input)}
          ELSE inv
     /\ conceptState' =
          IF how = "execute"
          THEN Execute(concept, action, input, conceptState).st
          ELSE conceptState
     /\ executed' = IF how = "execute" THEN executed \cup {id} ELSE executed

\* What a request handler invokes.
ExternalCalls ==
  { Invocation("Account", "open", << <<"id", Str("a1")>>, <<"balance", Num(50)>> >>),
    Invocation("Account", "open", << <<"id", Str("a1")>>, <<"balance", Num(500)>> >>),
    Invocation("Account", "credit", << <<"id", Str("a1")>>, <<"amount", Num(10)>> >>) }

\* The outermost invokes made so far.
OuterCalls(log) == Cardinality({r \in 1..Len(log) : ~log[r].syncTriggered})

\* An outermost invoke, from a caller that is not inside one.
InvokeStart(p, call, flow) ==
  /\ task[p].pc = "idle"
  /\ p = "c1" \/ task["c1"].pc # "idle"
  /\ flow \in FlowsOf(p)
  /\ ~Busy
  /\ Len(actions) < MaxRecords
  /\ OuterCalls(actions) < MaxCalls
  /\ InvokeCall(call.concept, call.action, call.input, flow, FALSE)
  /\ LET how == InvokeOutcome(call.concept, call.action, call.input, FALSE) IN
     task' = [task EXCEPT ![p] =
       CASE how = "notFound" ->
              IdleTask([kind |-> "throw", msg |-> "concept not found"])
         [] how = "skipped" ->
              IdleTask([kind |-> "skipped", msg |-> ""])
         [] OTHER ->
              [IdleTask(NoResult) EXCEPT
                 !.pc = "exec",
                 !.outer = Len(actions) + 1,
                 !.pend = Execute(call.concept, call.action, call.input,
                                  conceptState).res]]
  /\ queried' = NoQuery
  /\ UNCHANGED <<concepts, syncs, syncTriggering, firedSyncs, syncGraph, warnings, issued, sweepNo>>


(***************************************************************************)
(* invoke after its await of impl.execute, and triggerSyncs.               *)
(***************************************************************************)
\* output && typeof output === "object" ? output : { result: output }
WrapOutput(res) ==
  IF res.kind = "obj" THEN res.obj ELSE << <<"result", res.prim>> >>

\* { error: err.message }
ErrorMarker(msg) == << <<"error", Str(msg)>> >>

SetOutput(log, id, o) == [log EXCEPT ![id].output = Out(o)]

\* triggerSyncs called whatever the flag
AlwaysSweeps(flag) == TRUE

\* if (!this.syncTriggering) await this.triggerSyncs()
SweepStarts(flag) == ~flag

\* The task on entering triggerSyncs: at the first rule, or, with no rule
\* registered, past the loop and the finally block.
EnterSweep(t, phase, err) ==
  [t EXCEPT !.phase = phase, !.err = err,
            !.nsweeps = @ + 1, !.attempted = <<>>,
            !.ri = IF syncs = <<>> THEN 0 ELSE 1,
            !.pc = IF syncs = <<>> THEN "sweepRet" ELSE "rule"]

\* What the caller of an outermost invoke gets.
Returned(t) ==
  IF t.phase = "try" THEN [kind |-> "output", msg |-> ""]
  ELSE [kind |-> "throw", msg |-> t.err]

\* impl.execute of an outermost invoke has settled.
ExecReturn(p) ==
  LET t == task[p]
      ok == t.pend.kind # "throw"
      phase == IF ok THEN "try" ELSE "catch"
      err == IF ok THEN "" ELSE t.pend.msg
  IN /\ t.pc = "exec"
     /\ ~Busy
     /\ actions' = SetOutput(actions, t.outer,
                             IF ok THEN WrapOutput(t.pend) ELSE ErrorMarker(t.pend.msg))
     /\ IF SweepStarts(syncTriggering)
        THEN /\ task' = [task EXCEPT ![p] = EnterSweep(t, phase, err)]
             /\ syncTriggering' = (syncs # <<>>)
        ELSE /\ task' = [task EXCEPT ![p] =
                  IdleTask(Returned([t EXCEPT !.phase = phase, !.err = err]))]
             /\ UNCHANGED syncTriggering
     /\ sweepNo' = IF SweepStarts(syncTriggering) THEN sweepNo + 1 ELSE sweepNo
     /\ UNCHANGED <<concepts, syncs, firedSyncs, invokedActions, syncGraph, warnings, queried,
                    actionIndex, conceptState, executed, issued>>

(***************************************************************************)
(* tryFireSync.                                                            *)
(***************************************************************************)
\* matchWhen without the syncEdges test
matchWhenIgnoringMarks(log, index, pattern, syncName) ==
  LET key == IndexKey(pattern.concept, pattern.action)
      candidates == IF key \in DOMAIN index THEN index[key] ELSE <<>>
      Keep(id) ==
        /\ matchRecord(log[id].input, pattern.input)
        /\ matchRecord(log[id].output.obj, pattern.output)
  IN SelectSeq(candidates, Keep)

matchWhen(log, index, pattern, syncName) ==
  LET key == IndexKey(pattern.concept, pattern.action)
      candidates == IF key \in DOMAIN index THEN index[key] ELSE <<>>
      Keep(id) ==
        /\ matchRecord(log[id].input, pattern.input)
        /\ matchRecord(log[id].output.obj, pattern.output)
        /\ syncName \notin log[id].syncEdges
  IN SelectSeq(candidates, Keep)

\* The candidates of each when-pattern, in pattern order.
AllMatchingActions(log, index, sync) ==
  [i \in 1..Len(sync.when) |-> matchWhen(log, index, sync.when[i], sync.name)]

\* { ...action.input, ...output }, with the record the bindings come from
BindingsOf(log, id) == [b |-> Spread(log[id].input, log[id].output.obj), recs |-> <<id>>]

\* only the first element of a combined with each element of b
FirstOnly(a, b) ==
  [n \in 1..(IF a = <<>> THEN 0 ELSE Len(b)) |->
     [b |-> Spread(a[1].b, b[n].b), recs |-> a[1].recs \o b[n].recs]]

\* a.flatMap((x) => b.map((y) => ({ ...x, ...y })))
FlatMap(a, b) ==
  [n \in 1..(Len(a) * Len(b)) |->
     LET x == a[((n - 1) \div Len(b)) + 1]
         y == b[((n - 1) % Len(b)) + 1]
     IN [b |-> Spread(x.b, y.b), recs |-> x.recs \o y.recs]]

RECURSIVE CartesianFrom(_, _)
CartesianFrom(acc, arrays) ==
  IF arrays = <<>> THEN acc
  ELSE CartesianFrom(FlatMap(acc, Head(arrays)), Tail(arrays))

\* arrays.reduce(..., [{}])
cartesianProduct(arrays) == CartesianFrom(<<[b |-> <<>>, recs |-> <<>>]>>, arrays)

BindingCombinations(log, matching) ==
  cartesianProduct([i \in 1..Len(matching) |->
                      [j \in 1..Len(matching[i]) |-> BindingsOf(log, matching[i][j])]])

FilterThrows(where, combos) ==
  \E i \in 1..Len(combos) : FilterEval(where, combos[i].b) = "throw"

Passes(where, c) == FilterEval(where, c.b) = "pass"

\* bindingCombinations left as they are: the where filter is not applied
FilterNotApplied(where, combos) == combos

Filtered(where, combos) ==
  LET Keep(c) == Passes(where, c) IN SelectSeq(combos, Keep)

\* the test of firedSyncs left out
FiredSetIgnored(name, fired) == FALSE

\* if (this.firedSyncs.has(sync.name)) return false
AlreadyFired(name, fired) == name \in fired

\* tryFireSync goes on to its loops whatever it matched
AlwaysFires(sync) == "fire"

\* How the synchronous start of tryFireSync ends: "no" (returns false),
\* "throw" (the filter threw) or "fire" (there are combinations to fire).
TryOutcome(sync) ==
  LET matching == AllMatchingActions(actions, actionIndex, sync)
      product == BindingCombinations(actions, matching) IN
  IF AlreadyFired(sync.name, firedSyncs) THEN "no"
  ELSE IF \E i \in 1..Len(matching) : matching[i] = <<>> THEN "no"
  ELSE IF FilterThrows(sync.where, product) THEN "throw"
  ELSE IF Filtered(sync.where, product) = <<>> THEN "no"
  ELSE "fire"

\* The synchronous start of tryFireSync on the rule the sweep is at.
TryFireSync(p) ==
  LET t == task[p]
      sync == syncs[t.ri]
      matching == AllMatchingActions(actions, actionIndex, sync)
      how == TryOutcome(sync)
      t1 == [t EXCEPT !.attempted = Append(@, t.ri)]
  IN /\ t.pc = "rule"
     /\ task' = [task EXCEPT ![p] =
          CASE how = "no" -> [t1 EXCEPT !.pc = "ruleRet", !.fired = FALSE]
            [] how = "throw" -> [t1 EXCEPT !.pc = "ruleThrew"]
            [] OTHER ->
                 [t1 EXCEPT !.pc = "then", !.matching = matching,
                            !.combos = Filtered(sync.where,
                                         BindingCombinations(actions, matching)),
                            !.ci = 1, !.ti = 1, !.fired = FALSE]]
     /\ UNCHANGED <<engineVars, warnings, queried, conceptState, executed, issued, sweepNo>>

\* const flow = allMatchingActions[0][0].flow
ThenFlow(log, matching) == log[matching[1][1]].flow

\* One then-invocation of the current combination: replaceVariables and the
\* synchronous part of the nested invoke.
ThenInvoke(p) ==
  LET t == task[p]
      sync == syncs[t.ri]
      then == sync.then[t.ti]
      input == replaceVariables(then.input, t.combos[t.ci].b)
      flow == ThenFlow(actions, t.matching)
      how == InvokeOutcome(then.concept, then.action, input, TRUE)
  IN /\ t.pc = "then"
     /\ t.ti <= Len(sync.then)
     /\ Len(actions) < MaxRecords
     /\ InvokeCall(then.concept, then.action, input, flow, TRUE)
     /\ issued' = issued \cup {[rule |-> sync.name, recs |-> t.combos[t.ci].recs,
                                 ti |-> t.ti, rec |-> Len(actions) + 1,
                                 sweep |-> sweepNo]}
     /\ task' = [task EXCEPT ![p] =
          CASE how = "notFound" -> [t EXCEPT !.pc = "nret", !.ret = "threw"]
            [] how = "skipped" -> [t EXCEPT !.pc = "nret", !.ret = "skipped"]
            [] OTHER ->
                 [t EXCEPT !.pc = "nexec", !.nrec = Len(actions) + 1,
                           !.pend = Execute(then.concept, then.action, input,
                                            conceptState).res]]
     /\ UNCHANGED <<concepts, syncs, syncTriggering, firedSyncs, syncGraph, warnings, queried, sweepNo>>

\* impl.execute of a nested invoke has settled.  Were the sweep flag down
\* here the nested invoke would run a sweep of its own: pc "nestedSweep".
NestedExecReturn(p) ==
  LET t == task[p]
      ok == t.pend.kind # "throw"
  IN /\ t.pc = "nexec"
     /\ ~Busy
     /\ actions' = SetOutput(actions, t.nrec,
                             IF ok THEN WrapOutput(t.pend) ELSE ErrorMarker(t.pend.msg))
     /\ task' = [task EXCEPT ![p] =
          IF SweepStarts(syncTriggering)
          THEN [t EXCEPT !.pc = "nestedSweep"]
          ELSE [t EXCEPT !.pc = "nret", !.ret = IF ok THEN "ok" ELSE "threw"]]
     /\ UNCHANGED <<concepts, syncs, syncTriggering, firedSyncs, invokedActions,
                    syncGraph, warnings, queried, actionIndex, conceptState, executed, issued, sweepNo>>

\* await this.invoke(...) in tryFireSync settles: fired = true unless it threw.
CountsAsFired(ret) == ret # "threw"

\* the loop over then left at the first invocation that throws
AbortCombination(ti, ret, n) == IF ret = "threw" THEN n + 1 ELSE ti + 1

\* The then-invocation the loop goes to after invocation ti of n settled
\* with ret: the catch block only logs, so the next one in every case.
NextThen(ti, ret, n) == ti + 1

ThenReturn(p) ==
  LET t == task[p] IN
  /\ t.pc = "nret"
  /\ ~Busy
  /\ task' = [task EXCEPT ![p] =
       [t EXCEPT !.pc = "then", !.ret = "none", !.nrec = 0,
                 !.ti = NextThen(t.ti, t.ret, Len(syncs[t.ri].then)),
                 !.fired = @ \/ CountsAsFired(t.ret)]]
  /\ UNCHANGED <<engineVars, warnings, queried, conceptState, executed, issued, sweepNo>>

\* the records are marked only when an invocation succeeded
MarkOnlyIfFired(matching, combo, fired) ==
  IF fired
  THEN UNION {{matching[i][j] : j \in 1..Len(matching[i])} : i \in 1..Len(matching)}
  ELSE {}

\* The records tryFireSync marks after a combination it has gone through:
\* every candidate of every pattern, whether or not an invocation succeeded.
RecordsToMark(matching, combo, fired) ==
  UNION {{matching[i][j] : j \in 1..Len(matching[i])} : i \in 1..Len(matching)}

MarkConsumed(log, ids, name) ==
  [r \in 1..Len(log) |->
     IF r \in ids THEN [log[r] EXCEPT !.syncEdges = @ \cup {name}] ELSE log[r]]

\* The end of the loop over then for one combination: the rule is marked
\* fired, the records are marked, and the next combination starts or
\* tryFireSync returns.
CombinationEnd(p) ==
  LET t == task[p]
      sync == syncs[t.ri]
  IN /\ t.pc = "then"
     /\ t.ti > Len(sync.then)
     /\ firedSyncs' = IF t.fired THEN firedSyncs \cup {sync.name} ELSE firedSyncs
     /\ actions' = MarkConsumed(actions,
                                RecordsToMark(t.matching, t.combos[t.ci], t.fired),
                                sync.name)
     /\ task' = [task EXCEPT ![p] =
          IF t.ci < Len(t.combos)
          THEN [t EXCEPT !.ci = @ + 1, !.ti = 1]
          ELSE [t EXCEPT !.pc = "ruleRet", !.matching = <<>>, !.combos = <<>>,
                         !.ci = 0, !.ti = 0]]
     /\ UNCHANGED <<concepts, syncs, syncTriggering, invokedActions, syncGraph, warnings, queried,
                    actionIndex, conceptState, executed, issued, sweepNo>>

\* the loop over the rules started again after the last rule
RestartSweep(ri, n) == IF ri < n THEN ri + 1 ELSE 1

\* The rule the loop of triggerSyncs goes to after rule ri (0: the loop ends).
NextRule(ri, n) == IF ri < n THEN ri + 1 ELSE 0

\* the flag left up when the sweep ends with an exception
ResetOnlyOnReturn(threw) == threw

\* finally { this.syncTriggering = false }, whether or not the loop threw
FlagAfterSweep(threw) == FALSE

\* await this.tryFireSync(sync) settles: the next rule, or the finally block.
RuleReturn(p) ==
  LET t == task[p]
      nxt == NextRule(t.ri, Len(syncs))
  IN /\ t.pc = "ruleRet"
     /\ ~Busy
     /\ IF nxt # 0
        THEN /\ task' = [task EXCEPT ![p] = [t EXCEPT !.pc = "rule", !.ri = nxt,
                                                      !.fired = FALSE]]
             /\ UNCHANGED syncTriggering
        ELSE /\ task' = [task EXCEPT ![p] = [t EXCEPT !.pc = "sweepRet", !.ri = 0,
                                                      !.fired = FALSE]]
             /\ syncTriggering' = FlagAfterSweep(FALSE)
     /\ UNCHANGED <<concepts, actions, syncs, firedSyncs, invokedActions,
                    syncGraph, warnings, queried, actionIndex, conceptState, executed, issued, sweepNo>>

\* await this.triggerSyncs() settles: invoke returns its output, or rethrows
\* the error of execute.
SweepReturn(p) ==
  LET t == task[p] IN
  /\ t.pc = "sweepRet"
  /\ ~Busy
  /\ task' = [task EXCEPT ![p] = IdleTask(Returned(t))]
  /\ UNCHANGED <<engineVars, warnings, queried, conceptState, executed, issued, sweepNo>>

\* await this.tryFireSync(sync) rejects (the filter threw): the finally
\* block of triggerSyncs.
RuleThrew(p) ==
  LET t == task[p] IN
  /\ t.pc = "ruleThrew"
  /\ ~Busy
  /\ syncTriggering' = FlagAfterSweep(TRUE)
  /\ task' = [task EXCEPT ![p] = [t EXCEPT !.pc = "sweepThrew", !.ri = 0]]
  /\ UNCHANGED <<concepts, actions, syncs, firedSyncs, invokedActions,
                 syncGraph, warnings, queried, actionIndex, conceptState, executed, issued, sweepNo>>

FilterError == "filter threw"

\* await this.triggerSyncs() rejects.  In the try block the catch block
\* takes the error of the sweep for the error of execute: it overwrites the
\* output and sweeps again.  In the catch block the error leaves invoke.
SweepThrew(p) ==
  LET t == task[p] IN
  /\ t.pc = "sweepThrew"
  /\ ~Busy
  /\ IF t.phase = "try"
     THEN /\ actions' = SetOutput(actions, t.outer, ErrorMarker(FilterError))
          /\ IF SweepStarts(syncTriggering)
             THEN /\ task' = [task EXCEPT ![p] = EnterSweep(t, "catch", FilterError)]
                  /\ syncTriggering' = (syncs # <<>>)
             ELSE /\ task' = [task EXCEPT ![p] =
                       IdleTask([kind |-> "throw", msg |-> FilterError])]
                  /\ UNCHANGED syncTriggering
     ELSE /\ task' = [task EXCEPT ![p] =
               IdleTask([kind |-> "throw", msg |-> FilterError])]
          /\ UNCHANGED <<actions, syncTriggering>>
  /\ sweepNo' = IF t.phase = "try" /\ SweepStarts(syncTriggering)
                THEN sweepNo + 1 ELSE sweepNo
  /\ UNCHANGED <<concepts, syncs, firedSyncs, invokedActions, syncGraph, warnings, queried,
                 actionIndex, conceptState, executed, issued>>

(***************************************************************************)
(* getActionsByFlow.                                                       *)
(***************************************************************************)
\* every record of the log, whatever its flow
EveryRecord(log, flow) == [r \in 1..Len(log) |-> r]

\* this.actions.filter((a) => a.flow === flow)
getActionsByFlow(log, flow) ==
  LET ids == [r \in 1..Len(log) |-> r]
      Keep(r) == log[r].flow = flow
  IN SelectSeq(ids, Keep)

\* A caller reads the records of a flow, after its invokes have returned.
GetActionsByFlow(flow) ==
  /\ \A p \in Callers : task[p].pc = "idle"
  /\ actions # <<>>
  /\ queried = NoQuery
  /\ queried' = [flow |-> flow, records |-> getActionsByFlow(actions, flow)]
  /\ UNCHANGED <<engineVars, warnings, conceptState, task, executed, issued, sweepNo>>

\* The steps of the engine; none of them touches the event bus.
Next ==
  \/ \E name \in {"Account", "Audit"} : RegisterConcept(name) /\ UNCHANGED busVars
  \/ \E sync \in RuleUniverse : RegisterSync(sync) /\ UNCHANGED busVars
  \/ \E p \in Callers, call \in ExternalCalls, flow \in {"f1", "f2"} :
       InvokeStart(p, call, flow) /\ UNCHANGED busVars
  \/ \E p \in Callers : ExecReturn(p) /\ UNCHANGED busVars
  \/ \E p \in Callers : TryFireSync(p) /\ UNCHANGED busVars
  \/ \E p \in Callers : ThenInvoke(p) /\ UNCHANGED busVars
  \/ \E p \in Callers : NestedExecReturn(p) /\ UNCHANGED busVars
  \/ \E p \in Callers : ThenReturn(p) /\ UNCHANGED busVars
  \/ \E p \in Callers : CombinationEnd(p) /\ UNCHANGED busVars
  \/ \E p \in Callers : RuleReturn(p) /\ UNCHANGED busVars
  \/ \E p \in Callers : SweepReturn(p) /\ UNCHANGED busVars
  \/ \E p \in Callers : RuleThrew(p) /\ UNCHANGED busVars
  \/ \E p \in Callers : SweepThrew(p) /\ UNCHANGED busVars
  \/ \E flow \in {"f1", "f2"} : GetActionsByFlow(flow) /\ UNCHANGED busVars

Spec == Init /\ [][Next]_vars


(***************************************************************************)
(* The event bus (spec-to-code/src/lib/event-bus.ts).  A flow is the       *)
(* sequence of its events; an event's and a pattern's args and result are  *)
(* objects as above, empty when a pattern gives none.                      *)
(***************************************************************************)
MaxBusCalls == 4

FlowIds == {"f1", "f2"}

ActionEvent(flowId, concept, action, args, result) ==
  [flowId |-> flowId, concept |-> concept, action |-> action,
   args |-> args, result |-> result]

Condition(concept, action, args, result) ==
  [concept |-> concept, action |-> action, args |-> args, result |-> result]

\* this.flows.set(flowId, { flowId, events: [], metadata })
startFlow(fl, flowId) ==
  [f \in DOMAIN fl \cup {flowId} |-> IF f = flowId THEN <<>> ELSE fl[f]]

\* the event pushed to every started flow
EmitToEveryFlow(fl, event) == [f \in DOMAIN fl |-> Append(fl[f], event)]

\* const flow = this.flows.get(event.flowId); if (flow) flow.events.push(event)
emitAction(fl, event) ==
  IF event.flowId \in DOMAIN fl
  THEN [fl EXCEPT ![event.flowId] = Append(@, event)]
  ELSE fl

\* this.flows.delete(flowId)
endFlow(fl, flowId) == [f \in DOMAIN fl \ {flowId} |-> fl[f]]

\* One of the two loops of matchPattern, over the entries of pattern.args
\* or pattern.result: a "?name" value binds, any other must be === the
\* field of the event.
RECURSIVE MatchFields(_, _, _)
MatchFields(obj, pattern, bindings) ==
  IF pattern = <<>> THEN [matched |-> TRUE, bindings |-> bindings]
  ELSE LET key == Head(pattern)[1]
           value == Head(pattern)[2]
       IN IF value.k = "str" /\ Len(value.s) > 0 /\ SubSeq(value.s, 1, 1) = "?"
          THEN MatchFields(obj, Tail(pattern), SetKey(bindings, value.s, Get(obj, key)))
          ELSE IF ~StrictEquals(Get(obj, key), value)
          THEN [matched |-> FALSE, bindings |-> bindings]
          ELSE MatchFields(obj, Tail(pattern), bindings)

matchPattern(event, pattern) ==
  IF pattern.concept # "" /\ event.concept # pattern.concept
  THEN [matched |-> FALSE, bindings |-> <<>>]
  ELSE IF pattern.action # "" /\ event.action # pattern.action
  THEN [matched |-> FALSE, bindings |-> <<>>]
  ELSE LET a == MatchFields(event.args, pattern.args, <<>>) IN
       IF ~a.matched THEN a
       ELSE MatchFields(event.result, pattern.result, a.bindings)

\* The loop of checkFlowConditions over the conditions: the first event of
\* the flow that matches a condition gives its bindings.
RECURSIVE CheckConditions(_, _, _)
CheckConditions(events, conditions, allBindings) ==
  IF conditions = <<>> THEN [matched |-> TRUE, bindings |-> allBindings]
  ELSE LET hits == {i \in 1..Len(events) :
                      matchPattern(events[i], Head(conditions)).matched}
       IN IF hits = {} THEN [matched |-> FALSE, bindings |-> <<>>]
          ELSE LET first == CHOOSE i \in hits : \A j \in hits : i <= j IN
               CheckConditions(events, Tail(conditions),
                               Spread(allBindings,
                                      matchPattern(events[first],
                                                   Head(conditions)).bindings))

checkFlowConditions(fl, flowId, conditions) ==
  IF flowId \notin DOMAIN fl THEN [matched |-> FALSE, bindings |-> <<>>]
  ELSE CheckConditions(fl[flowId], conditions, <<>>)

\* The events emitted and the conditions asked for.
BusEvents ==
  { ActionEvent(f, "Web", "request", << <<"path", Str("/users")>> >>, <<>>) :
      f \in FlowIds }
  \cup
  { ActionEvent("f1", "User", "register", << <<"name", Str("bob")>> >>,
                << <<"user", Str("u1")>> >>),
    ActionEvent("f2", "User", "register", << <<"name", Str("amy")>> >>,
                << <<"user", Str("u2")>> >>) }

ConditionLists ==
  { <<>>,
    << Condition("Web", "request", << <<"path", Str("/users")>> >>, <<>>) >>,
    << Condition("User", "register", << <<"name", Str("?name")>> >>, <<>>) >>,
    << Condition("Web", "request", <<>>, <<>>),
       Condition("User", "register", << <<"name", Str("bob")>> >>,
                 << <<"user", Str("?user")>> >>) >> }

NoEvent == ActionEvent("", "", "", <<>>, <<>>)

BusCall(op, flowId, event) == [op |-> op, flowId |-> flowId, event |-> event]

StartFlow(flowId) ==
  /\ Len(busLog) < MaxBusCalls
  /\ flows' = startFlow(flows, flowId)
  /\ busLog' = Append(busLog, BusCall("startFlow", flowId, NoEvent))
  /\ checked' = NoCheck
  /\ UNCHANGED engineState

EmitAction(event) ==
  /\ Len(busLog) < MaxBusCalls
  /\ flows' = emitAction(flows, event)
  /\ busLog' = Append(busLog, BusCall("emitAction", event.flowId, event))
  /\ checked' = NoCheck
  /\ UNCHANGED engineState

EndFlow(flowId) ==
  /\ Len(busLog) < MaxBusCalls
  /\ flows' = endFlow(flows, flowId)
  /\ busLog' = Append(busLog, BusCall("endFlow", flowId, NoEvent))
  /\ checked' = NoCheck
  /\ UNCHANGED engineState

CheckFlowConditions(flowId, conditions) ==
  /\ checked = NoCheck
  /\ checked' = [flowId |-> flowId, conditions |-> conditions,
                 result |-> checkFlowConditions(flows, flowId, conditions)]
  /\ UNCHANGED <<flows, busLog, engineState>>

BusNext ==
  \/ \E flowId \in FlowIds : StartFlow(flowId)
  \/ \E event \in BusEvents : EmitAction(event)
  \/ \E flowId \in FlowIds : EndFlow(flowId)
  \/ \E flowId \in FlowIds, conditions \in ConditionLists :
       CheckFlowConditions(flowId, conditions)

BusSpec == Init /\ [][BusNext]_vars


(***************************************************************************)
(* Vocabulary of the properties.                                           *)
(***************************************************************************)
Range(seq) == {seq[i] : i \in 1..Len(seq)}

RecKey(r) == ActionKey(actions[r].concept, actions[r].action, actions[r].input)

\* The record of an invoke that loop prevention skipped: its concept is
\* registered and execute was not called for it.
SkippedRecord(r) == actions[r].concept \in concepts /\ r \notin executed

RuleIndex(name) == CHOOSE i \in 1..Len(syncs) : syncs[i].name = name

\* Record r is in a combination that sync would fire on, were sync free to
\* fire: every pattern has candidates not yet consumed by sync, and r is in
\* a combination that passes the filter.
ConsumableBy(sync, r) ==
  LET matching == AllMatchingActions(actions, actionIndex, sync)
      product == BindingCombinations(actions, matching)
  IN /\ \A i \in 1..Len(matching) : matching[i] # <<>>
     /\ ~FilterThrows(sync.where, product)
     /\ \E c \in Range(Filtered(sync.where, product)) : r \in Range(c.recs)

\* The then-invocation e belongs to the combination a task is still in.
InProgress(e) ==
  \E p \in Callers :
    /\ task[p].pc \in {"then", "nexec", "nret", "nestedSweep"}
    /\ syncs[task[p].ri].name = e.rule
    /\ task[p].combos[task[p].ci].recs = e.recs
    /\ e.sweep = sweepNo


(***************************************************************************)
(* Loop prevention.                                                        *)
(***************************************************************************)
\* C1: an invoke that loop prevention skips does not call execute and
\* leaves the action log and the per-(concept, action) index exactly as
\* they were before the call.
C1_SkippedInvokeLeavesLogUntouched ==
  [][\A p \in Callers :
       (task[p].pc = "then" /\ task'[p].pc = "nret" /\ task'[p].ret = "skipped")
         => /\ executed' = executed
            /\ conceptState' = conceptState
            /\ actions' = actions
            /\ actionIndex' = actionIndex]_vars

\* C2: of two invokes of one flow with the same (concept, action, input),
\* the second made while the execute of the first has not resolved, only
\* the first calls execute.
C2_OverlappingDuplicateRunsOnce ==
  \A r1 \in 1..Len(actions) : \A r2 \in 1..Len(actions) :
    ( /\ r1 < r2
      /\ actions[r1].flow = actions[r2].flow
      /\ RecKey(r1) = RecKey(r2)
      /\ r1 \in executed
      /\ ~actions[r1].output.defined )
      => r2 \notin executed

\* C3: an invoke is skipped only on account of an earlier invocation of its
\* own flow: every skipped record has an earlier executed record with the
\* same signature and the same flow.
C3_SkipsStayWithinFlow ==
  \A r \in 1..Len(actions) :
    SkippedRecord(r)
      => \E q \in 1..(r - 1) :
           /\ q \in executed
           /\ RecKey(q) = RecKey(r)
           /\ actions[q].flow = actions[r].flow


(***************************************************************************)
(* Sweeps.                                                                 *)
(***************************************************************************)
\* C4: an outermost invoke on a registered concept has run exactly one
\* sweep when it returns or throws.
C4_OneSweepPerOutermostInvoke ==
  [][\A p \in Callers :
       (task[p].pc # "idle" /\ task'[p].pc = "idle") => task[p].nsweeps = 1]_vars

\* C5: when a sweep ends it has attempted every registered rule exactly
\* once, in registration order, and its invoke does not sweep again.
C5_SweepIsOneLinearPass ==
  [][\A p \in Callers :
       (task[p].pc \in {"sweepRet", "sweepThrew"} /\ task'[p].pc # task[p].pc)
         => /\ task[p].attempted = [i \in 1..Len(syncs) |-> i]
            /\ task'[p].pc = "idle"]_vars

\* C6: when the sweep reaches a rule and a then-invocation of an
\* earlier-registered rule has, in this sweep, executed and appended a
\* record the rule's when-patterns match, the rule fires.
C6_DependentRuleFiresInSameSweep ==
  \A p \in Callers :
    ( /\ task[p].pc = "rule"
      /\ \E e \in issued :
           /\ e.sweep = sweepNo
           /\ RuleIndex(e.rule) < task[p].ri
           /\ e.rec \in executed
           /\ ConsumableBy(syncs[task[p].ri], e.rec) )
      => TryOutcome(syncs[task[p].ri]) = "fire"

\* C7: a rule registered before its producer does not consume, in a sweep,
\* a record the producer appends in that sweep; and when a later sweep
\* reaches the rule while a record the producer's executed then-invocation
\* appended is still unconsumed, the rule fires.
C7_EarlierDependentFiresOnNextSweep ==
  /\ \A e \in issued : \A d \in issued :
       (e.sweep = d.sweep /\ RuleIndex(d.rule) < RuleIndex(e.rule))
         => e.rec \notin Range(d.recs)
  /\ \A p \in Callers :
       ( /\ task[p].pc = "rule"
         /\ \E e \in issued :
              /\ e.sweep < sweepNo
              /\ RuleIndex(e.rule) > task[p].ri
              /\ e.rec \in executed
              /\ ConsumableBy(syncs[task[p].ri], e.rec) )
         => TryOutcome(syncs[task[p].ri]) = "fire"


(***************************************************************************)
(* The cascade of the Account rules.                                       *)
(***************************************************************************)
Open(balance) ==
  Invocation("Account", "open", << <<"id", Str("a1")>>, <<"balance", Num(balance)>> >>)

\* The engine has rule A then rule B, both concepts, and has completed
\* exactly one outermost invoke: Account/open of a1 with this balance.
OpenedOnce(balance) ==
  /\ syncs = <<RuleA, RuleB>>
  /\ concepts = {"Account", "Audit"}
  /\ \A p \in Callers : task[p].pc = "idle"
  /\ OuterCalls(actions) = 1
  /\ actions[1].concept = "Account" /\ actions[1].action = "open"
  /\ actions[1].input = Open(balance).input

C9_NoRefireOnConsumedRecords ==
  \A e \in issued : \A d \in issued :
    e.rule = d.rule =>
      /\ (e.recs = d.recs /\ e.ti = d.ti) => e = d
      /\ e.sweep < d.sweep => Range(e.recs) \cap Range(d.recs) = {}

\* A later sweep has gone through the attempt of a rule that issued
\* then-invocations in an earlier sweep, that is not held back by
\* firedSyncs, and whose consumed records are still in the index.
C9_ConsumedRecordNotRematched ==
  \E p \in Callers :
    /\ task[p].pc = "ruleRet"
    /\ task[p].ri > 0
    /\ syncs[task[p].ri].name \notin firedSyncs
    /\ \E e \in issued :
         /\ e.rule = syncs[task[p].ri].name
         /\ e.sweep < sweepNo
         /\ ~InProgress(e)
         /\ \A r \in Range(e.recs) : e.rule \in actions[r].syncEdges

FlowOf(e) == actions[e.rec].flow

\* C11: firing state is scoped to a flow: when rule R has fired for records
\* of flow F1 and that flow has ended, and a sweep of a later flow F2
\* reaches R while a combination of records of F2 not yet consumed by R
\* passes its filter, R fires.
C11_RuleFiresAgainInLaterFlow ==
  \A p \in Callers :
    ( /\ task[p].pc = "rule"
      /\ \A q \in Callers \ {p} : task[q].pc = "idle"
      /\ \E e \in issued :
           /\ e.rule = syncs[task[p].ri].name
           /\ e.rec \in executed
           /\ e.sweep < sweepNo
           /\ FlowOf(e) # actions[task[p].outer].flow
           /\ \E r \in 1..Len(actions) :
                /\ actions[r].flow = actions[task[p].outer].flow
                /\ ConsumableBy(syncs[task[p].ri], r) )
      => TryOutcome(syncs[task[p].ri]) = "fire"


Threw(e) ==
  \/ actions[e.rec].concept \notin concepts
  \/ /\ actions[e.rec].output.defined
     /\ Has(actions[e.rec].output.obj, "error")

\* Then-invocation k of combination c of the attempt task t is in was issued.
Attempted(t, c, k) ==
  \E e \in issued :
    /\ e.rule = syncs[t.ri].name
    /\ e.recs = t.combos[c].recs
    /\ e.ti = k
    /\ e.sweep = sweepNo

\* C13: a then-invocation that throws aborts nothing.  Inside an attempt
\* every then-invocation of every earlier combination and every earlier
\* then-invocation of the current one was issued, whether or not one of
\* them threw; the sweep has tried every rule up to the one it is at; and
\* all through the sweep what the outermost invoke is to return stays the
\* output of its own record, or the error execute left in its own record.
C13_ThenFailureAbortsNothing ==
  \A p \in Callers :
    LET t == task[p] IN
    /\ t.pc \in {"then", "nexec", "nret"} =>
         /\ \A c \in 1..(t.ci - 1) : \A k \in 1..Len(syncs[t.ri].then) :
              Attempted(t, c, k)
         /\ \A k \in 1..(t.ti - 1) : Attempted(t, t.ci, k)
         /\ t.ti <= Len(syncs[t.ri].then) + 1
    /\ t.pc \in {"rule", "then", "nexec", "nret", "ruleRet"} =>
         t.attempted = [i \in 1..Len(t.attempted) |-> i]
           /\ Len(t.attempted) \in {t.ri - 1, t.ri}
    /\ t.pc = "sweepRet" /\ syncs # <<>> =>
         t.attempted = [i \in 1..Len(syncs) |-> i]
    /\ t.pc \in {"rule", "then", "nexec", "nret", "ruleRet", "sweepRet"}
         /\ t.err # FilterError =>
         /\ Returned(t).kind = "output" =>
              ~Has(actions[t.outer].output.obj, "error")
         /\ Returned(t).kind = "throw" =>
              /\ Returned(t).msg = t.err
              /\ actions[t.outer].output.obj = ErrorMarker(t.err)

\* A sweep has ended with the outermost invoke about to return its output,
\* after the first then-invocation of a combination threw and the second
\* one of the same combination was made and executed.
C13_SecondThenRanAfterThrow ==
  \E p \in Callers :
    /\ task[p].pc = "sweepRet"
    /\ Returned(task[p]).kind = "output"
    /\ \E e \in issued : \E d \in issued :
         /\ e.rule = d.rule /\ e.recs = d.recs /\ e.sweep = d.sweep
         /\ e.sweep = sweepNo
         /\ e.ti = 1 /\ d.ti = 2
         /\ Threw(e) /\ d.rec \in executed /\ ~Threw(d)


\* execute of the outermost invoke of task t threw: the task awaits the
\* rejected execute, or is in the sweep the catch block started for it.
ExecuteThrew(t) ==
  \/ t.pc = "exec" /\ t.pend.kind = "throw"
  \/ t.pc \notin {"idle", "exec"} /\ t.phase = "catch" /\ t.nsweeps = 1

\* The error execute threw.
ExecuteError(t) == IF t.pc = "exec" THEN t.pend.msg ELSE t.err

\* A when-pattern on the record of concept and action whose output carries
\* the error msg.
ErrorPattern(concept, action, msg) ==
  Pattern(concept, action, <<>>, << <<"error", Str(msg)>> >>)

\* C14: when execute of an outermost invoke throws, at the return of that
\* invoke its record is in the log with the error marker as output, a
\* pattern with an output constraint on that error matches the record,
\* and the caller is raised the error execute threw.
C14_ExecuteErrorLoggedAndRaised ==
  [][ \A p \in Callers :
        ( /\ task[p].pc # "idle" /\ task'[p].pc = "idle"
          /\ ExecuteThrew(task[p]) )
        => LET r == task[p].outer
               msg == ExecuteError(task[p])
           IN /\ Len(actions') >= r
              /\ actions'[r].output = Out(ErrorMarker(msg))
              /\ r \in Range(matchWhen(actions', actionIndex',
                                       ErrorPattern(actions'[r].concept,
                                                    actions'[r].action, msg),
                                       "no rule"))
              /\ task'[p].result = [kind |-> "throw", msg |-> msg] ]_vars



(***************************************************************************)
(* Matching and combining.                                                 *)
(***************************************************************************)
\* Patterns a rule could be written with: no constraint, constraints on
\* fields holding a number, a string and an object, a constraint on the
\* error of the output, and a constraint on a field no record has.
PatternUniverse ==
  { Pattern("Account", "open", <<>>, <<>>),
    Pattern("Account", "credit", <<>>, <<>>),
    Pattern("Audit", "log", <<>>, <<>>),
    Pattern("Account", "open", << <<"balance", Num(50)>> >>, <<>>),
    Pattern("Account", "open", << <<"id", Str("a1")>> >>,
            << <<"error", Str("account exists")>> >>),
    Pattern("Account", "credit", <<>>, << <<"balance", Num(60)>> >>),
    Pattern("Account", "open", << <<"code", Num(1)>> >>, <<>>),
    Pattern("Audit", "log",
            << <<"origin", Obj(<< <<"rule", Str("G")>>,
                                  <<"account", Str("a1")>> >>)>> >>, <<>>) }

\* Every field the constraint names has the constraint's value in obj.
FieldsEqual(obj, constraint) ==
  \A i \in 1..Len(constraint) : Get(obj, constraint[i][1]) = constraint[i][2]

\* C15: for every pattern and rule name the matcher returns, each once and
\* in log order, exactly the records of the log with the pattern's concept
\* and action whose input and output have the values the pattern
\* constrains and which the rule has not consumed.
C15_MatcherReturnsExactlyTheMatches ==
  \A pattern \in PatternUniverse : \A name \in {"A", "B", "G", "no rule"} :
    LET found == matchWhen(actions, actionIndex, pattern, name) IN
    /\ Range(found) =
         { r \in 1..Len(actions) :
             /\ actions[r].concept = pattern.concept
             /\ actions[r].action = pattern.action
             /\ FieldsEqual(actions[r].input, pattern.input)
             /\ FieldsEqual(actions[r].output.obj, pattern.output)
             /\ name \notin actions[r].syncEdges }
    /\ \A i \in 1..Len(found) : \A j \in 1..Len(found) :
         i < j => found[i] < found[j]


\* The when-clauses the combiner is checked on: none, two and three
\* patterns.
WhenUniverse ==
  { <<>>,
    RuleP.when,
    << Pattern("Account", "open", <<>>, <<>>),
       Pattern("Account", "open", << <<"balance", Num(50)>> >>, <<>>) >>,
    << Pattern("Account", "open", <<>>, <<>>),
       Pattern("Account", "credit", <<>>, <<>>),
       Pattern("Account", "open", <<>>, <<>>) >> }

RECURSIVE Product(_)
Product(counts) ==
  IF counts = <<>> THEN 1 ELSE Head(counts) * Product(Tail(counts))

\* tuple has one candidate of each pattern.
CandidateTuple(tuple, matching) ==
  /\ Len(tuple) = Len(matching)
  /\ \A i \in 1..Len(matching) : tuple[i] \in Range(matching[i])

\* C16: for patterns with k1, ..., kn candidates the combiner produces
\* k1 * ... * kn combinations before the filter, each of a tuple of
\* candidates and no two of the same tuple: on the log as it is whenever
\* a sweep starts, for each of the when-clauses above, and for the
\* combinations a firing rule without a filter goes through.
C16_CombinerIsTheFullProduct ==
  /\ (\E p \in Callers : task[p].pc = "rule" /\ task[p].attempted = <<>>)
       => \A when \in WhenUniverse :
       LET sync == [RuleP EXCEPT !.when = when]
           matching == AllMatchingActions(actions, actionIndex, sync)
           product == BindingCombinations(actions, matching)
           tuples == {product[n].recs : n \in 1..Len(product)}
       IN /\ Len(product) =
               Product([i \in 1..Len(matching) |-> Len(matching[i])])
          /\ Cardinality(tuples) = Len(product)
          /\ \A tuple \in tuples : CandidateTuple(tuple, matching)
  /\ \A p \in Callers :
       task[p].pc = "then" /\ syncs[task[p].ri].where = "none" =>
         Len(task[p].combos) =
           Product([i \in 1..Len(task[p].matching) |-> Len(task[p].matching[i])])

\* Rule P is firing on two Account/open and two Account/credit records:
\* four combinations.
C16_TwoByTwo ==
  \E p \in Callers :
    /\ task[p].pc = "then"
    /\ syncs[task[p].ri].name = "P"
    /\ Len(task[p].matching) = 2
    /\ Len(task[p].matching[1]) = 2
    /\ Len(task[p].matching[2]) = 2
    /\ Len(task[p].combos) = 4



(***************************************************************************)
(* Substitution into the then-templates.                                   *)
(***************************************************************************)
\* C17: a generator in a then-template is evaluated during substitution:
\* the input of every then-invocation holds the generated value, never the
\* generator function itself.
C17_GeneratorsEvaluatedInSubstitution ==
  \A e \in issued :
    \A i \in 1..Len(actions[e.rec].input) :
      actions[e.rec].input[i][2].k # "fn"



(***************************************************************************)
(* Registration.                                                           *)
(***************************************************************************)
\* C18: once rules A, B and C are registered, where the then of A targets
\* the when of B, that of B the when of C and that of C the when of A, a
\* cycle warning naming A, B and C has been emitted (and all three rules
\* are registered).
C18_CycleWarningNamesAllThree ==
  {"A", "B", "C"} \subseteq {syncs[i].name : i \in 1..Len(syncs)}
    => \E w \in 1..Len(warnings) : {"A", "B", "C"} \subseteq Range(warnings[w])

\* C19: a rule naming a concept that is not registered is rejected at
\* registration: every registered rule has all its when and then concepts
\* registered, and no then-invocation meets an unknown concept in a sweep.
C19_UnknownConceptRejectedAtRegistration ==
  /\ \A i \in 1..Len(syncs) :
       /\ \A w \in 1..Len(syncs[i].when) : syncs[i].when[w].concept \in concepts
       /\ \A t \in 1..Len(syncs[i].then) : syncs[i].then[t].concept \in concepts
  /\ \A e \in issued : actions[e.rec].concept \in concepts



(***************************************************************************)
(* The log is append-only.                                                 *)
(***************************************************************************)
\* C20: the output of a record is set once: after it has been set no step
\* changes it, and no step removes a record from the log.
C20_OutputSetOnce ==
  [][ /\ Len(actions') >= Len(actions)
      /\ \A r \in 1..Len(actions) :
           /\ actions'[r].concept = actions[r].concept
           /\ actions'[r].action = actions[r].action
           /\ actions'[r].input = actions[r].input
           /\ actions[r].output.defined
                => actions'[r].output = actions[r].output ]_vars



(***************************************************************************)
(* Reading a flow.                                                         *)
(***************************************************************************)
\* What getActionsByFlow is to return for flow: the records created with
\* that flow, each once, in the order of their invocations (the order of
\* the log).
RecordsOfFlow(records, flow) ==
  /\ Range(records) = {r \in 1..Len(actions) : actions[r].flow = flow}
  /\ \A i \in 1..Len(records) : \A j \in 1..Len(records) :
       i < j => records[i] < records[j]

\* C21: in every state reached, getActionsByFlow(f) is exactly the records
\* created with flow f in invocation order, what a caller was returned is
\* that list, and the call changes no state of the engine or the concepts.
C21_FlowRecordsInOrderReadOnly ==
  [][ /\ \A flow \in {"f1", "f2"} :
           RecordsOfFlow(getActionsByFlow(actions, flow), flow)'
      /\ queried' # NoQuery /\ queried' # queried =>
           /\ queried'.records = getActionsByFlow(actions, queried'.flow)
           /\ UNCHANGED <<engineVars, conceptState, task>> ]_vars

\* A caller was returned two or more records of a flow from a log that
\* also holds records of another flow.
C21_FlowReadAmongOthers ==
  /\ queried # NoQuery
  /\ Len(queried.records) >= 2
  /\ Len(queried.records) < Len(actions)



(***************************************************************************)
(* Overlapping invokes.                                                    *)
(***************************************************************************)
\* The tasks awaiting an execute the engine has called and that has not
\* settled yet.
ExecutesInFlight == {p \in Callers : task[p].pc \in {"exec", "nexec"}}

\* C22: at any time at most one execute started by the engine is in
\* flight.
C22_OneExecuteAtATime == Cardinality(ExecutesInFlight) <= 1



(***************************************************************************)
(* Flows in matching and firing.                                           *)
(***************************************************************************)
\* The flows of the records matched by the combination of e.
FlowsJoined(e) == {actions[e.recs[i]].flow : i \in 1..Len(e.recs)}

\* C23: a rule fires only on combinations whose matched records all
\* belong to one flow.
C23_CombinationWithinOneFlow ==
  \A e \in issued : Cardinality(FlowsJoined(e)) <= 1


\* The records of the combinations of sync's current attempt that passed
\* the filter.
InSurvivingCombination(t) ==
  UNION {Range(t.combos[c].recs) : c \in 1..Len(t.combos)}

\* C24: a firing rule marks only the records of the combinations that
\* passed its filter: a record it marks in a step is in one of them.
C24_OnlySurvivorsMarked ==
  [][ \A p \in Callers : \A r \in 1..Len(actions) :
        ( /\ task[p].pc = "then"
          /\ syncs[task[p].ri].name \notin actions[r].syncEdges
          /\ syncs[task[p].ri].name \in actions'[r].syncEdges )
        => r \in InSurvivingCombination(task[p]) ]_vars


\* C25: the record a then-invocation appends carries the flow of the
\* records of the combination that fired it, for every combination.
C25_ThenInheritsFlowOfItsCombination ==
  \A e \in issued : FlowsJoined(e) = {FlowOf(e)}


\* C26: when execute of an outermost invoke settles, and so its record is
\* finalized, the invoke goes on to a sweep of its own, also while the
\* sweep of another outermost invoke is in progress.
C26_OverlappingInvokeGetsItsSweep ==
  [][ \A p \in Callers :
        (task[p].pc = "exec" /\ task'[p].pc # "exec")
          => /\ task'[p].pc \in {"rule", "sweepRet"}
             /\ task'[p].nsweeps = 1
             /\ actions'[task[p].outer].output.defined ]_vars



(***************************************************************************)
(* Termination and the shape of a sweep.                                   *)
(***************************************************************************)
\* The then-invocations a rule issued in a sweep.
IssuedBy(rule, sweep) == {e \in issued : e.rule = rule /\ e.sweep = sweep}

\* What is left of the invoke of task t, most significant first: the
\* sweeps it can still start, the rules left in its sweep, the stage of
\* the attempt on the current rule, the combinations left, the
\* then-invocations left in the combination, and the stage of the current
\* then-invocation.
Remaining(t) ==
  << CASE t.pc = "idle" -> 0
       [] t.pc = "exec" -> 3
       [] t.phase = "try" -> 2
       [] OTHER -> 1,
     IF t.ri = 0 THEN 0 ELSE Len(syncs) - t.ri + 1,
     CASE t.pc = "rule" -> 2
       [] t.pc \in {"then", "nexec", "nret", "nestedSweep"} -> 1
       [] OTHER -> 0,
     Len(t.combos) - t.ci,
     IF t.ti = 0 THEN 0 ELSE Len(syncs[t.ri].then) - t.ti + 1,
     CASE t.pc = "then" -> 3
       [] t.pc = "nexec" -> 2
       [] t.pc = "nret" -> 1
       [] OTHER -> 0 >>

\* a is before b in the lexicographic order of tuples of naturals.
LexLess(a, b) ==
  \E i \in 1..Len(a) :
    /\ \A j \in 1..(i - 1) : a[j] = b[j]
    /\ a[i] < b[i]

\* C27: every outermost invoke terminates when every execute does, also
\* with rules that trigger each other in a cycle: every step of an invoke
\* takes what is left of it down in a well-founded order.  And in a sweep
\* a rule issues at most one then-invocation for each of its
\* then-templates and each combination that passed its filter.
C27_InvokeTerminatesAndIsBounded ==
  [][ /\ \A p \in Callers :
           (task[p].pc # "idle" /\ task'[p] # task[p])
             => /\ \A i \in 1..6 : Remaining(task'[p])[i] >= 0
                /\ LexLess(Remaining(task'[p]), Remaining(task[p]))
      /\ \A e \in issued' : \A d \in issued' :
           (e.rule = d.rule /\ e.sweep = d.sweep /\ e.recs = d.recs /\ e.ti = d.ti)
             => e = d
      /\ \A p \in Callers :
           task[p].pc = "then" =>
             \A e \in IssuedBy(syncs[task[p].ri].name, sweepNo)' \ issued :
               /\ \E c \in 1..Len(task[p].combos) : task[p].combos[c].recs = e.recs
               /\ e.ti \in 1..Len(syncs[task[p].ri].then) ]_vars

\* The outermost invoke that started the cycle of rules A, B and C has
\* returned: A, B and C each issued one then-invocation, C's being the
\* Account/open that A matches, and the log holds four records.
C27_CycleRanOut ==
  /\ syncs = <<RuleA, RuleB, RuleC>>
  /\ \A p \in Callers : task[p].pc = "idle"
  /\ {e.rule : e \in issued} = {"A", "B", "C"}
  /\ Cardinality(issued) = 3
  /\ Len(actions) = 4
  /\ OuterCalls(actions) = 1


\* The tasks inside triggerSyncs.
Sweeping ==
  {p \in Callers : task[p].pc \in {"rule", "then", "nexec", "nret", "nestedSweep",
                                   "ruleRet", "ruleThrew"}}

\* C28: an invoke made by a rule starts no sweep of its own: no task is in
\* a sweep nested in its then-invocation, at most one sweep is running,
\* the flag is up while it runs, and the sweep has attempted no rule
\* twice.
C28_NoNestedSweep ==
  /\ \A p \in Callers : task[p].pc # "nestedSweep"
  /\ Cardinality(Sweeping) <= 1
  /\ Sweeping # {} => syncTriggering
  /\ \A p \in Callers :
       \A i \in 1..Len(task[p].attempted) : \A j \in 1..Len(task[p].attempted) :
         task[p].attempted[i] = task[p].attempted[j] => i = j

\* execute of a then-invocation has settled inside a sweep, its record has
\* its output, and the invoke returns to the rule without having swept.
C28_ThenInvokeReturnedUnswept ==
  \E p \in Callers :
    /\ task[p].pc = "nret"
    /\ task[p].ret = "ok"
    /\ actions[task[p].nrec].syncTriggered
    /\ actions[task[p].nrec].output.defined
    /\ task[p].nsweeps = 1


\* The combinations of unconsumed matching records of one flow that pass
\* the filter of sync and for which sync has issued no then-invocation.
Unfired(sync) ==
  LET matching == AllMatchingActions(actions, actionIndex, sync)
      product == BindingCombinations(actions, matching)
  IN IF \/ \E i \in 1..Len(matching) : matching[i] = <<>>
        \/ FilterThrows(sync.where, product)
     THEN {}
     ELSE {c \in Range(Filtered(sync.where, product)) :
             /\ \A i \in 1..Len(c.recs) : actions[c.recs[i]].flow = actions[c.recs[1]].flow
             /\ \A i \in 1..Len(c.recs) : c.recs[i] \in executed
             /\ ~\E e \in issued : e.rule = sync.name /\ e.recs = c.recs}

\* C29: once every outermost invoke has returned, and the last of them
\* returned a result, no registered rule has a combination of unconsumed
\* matching records that passes its filter and has not been fired.
C29_FixpointAfterInvoke ==
  ( /\ \A p \in Callers : task[p].pc = "idle"
    /\ \A p \in Callers : task[p].result.kind # "throw"
    /\ actions # <<>> )
    => \A i \in 1..Len(syncs) : Unfired(syncs[i]) = {}

\* C30: the rule graph has the edge A -> B exactly for the pairs of
\* distinct registered rules where a then-invocation of A has the concept
\* and action of a when-pattern of B, whatever the order of registration.
Feeds(a, b) ==
  \E t \in 1..Len(a.then) : \E w \in 1..Len(b.when) :
    /\ b.when[w].concept = a.then[t].concept
    /\ b.when[w].action = a.then[t].action

C30_GraphHasEveryEdge ==
  \A i \in 1..Len(syncs) : \A j \in 1..Len(syncs) :
    i # j => ( syncs[j].name \in Range(syncGraph[syncs[i].name])
                 <=> Feeds(syncs[i], syncs[j]) )


\* C31: once a rule one of whose then-invocations has the concept and
\* action of one of its own when-patterns is registered, a cycle warning
\* naming that rule has been emitted.
C31_SelfCycleWarned ==
  \A i \in 1..Len(syncs) :
    Feeds(syncs[i], syncs[i])
      => \E w \in 1..Len(warnings) : syncs[i].name \in Range(warnings[w])


(***************************************************************************)
(* Bindings.                                                               *)
(***************************************************************************)
\* Record r of log has a field named k, in its input or its output.
HasField(log, r, k) == Has(log[r].input, k) \/ Has(log[r].output.obj, k)

FieldsOf(log, r) == Keys(log[r].input) \cup Keys(log[r].output.obj)

\* The field k of a record: its output's when the output has it.
FieldOfRecord(log, r, k) ==
  IF Has(log[r].output.obj, k) THEN Get(log[r].output.obj, k)
  ELSE Get(log[r].input, k)

\* The field k of the records recs, one per pattern: the last pattern's
\* whose record has it.
FieldOfTuple(log, recs, k) ==
  LET holders == {i \in 1..Len(recs) : HasField(log, recs[i], k)}
      last == CHOOSE i \in holders : \A j \in holders : j <= i
  IN FieldOfRecord(log, recs[last], k)

\* The combinations are merged as stated: each has exactly the fields of
\* its records, with the values above.
MergedLastWins(log, combos) ==
  \A n \in 1..Len(combos) :
    /\ Keys(combos[n].b) = UNION {FieldsOf(log, combos[n].recs[i]) :
                                    i \in 1..Len(combos[n].recs)}
    /\ \A k \in Keys(combos[n].b) :
         Get(combos[n].b, k) = FieldOfTuple(log, combos[n].recs, k)

\* A log whose records disagree on their fields: the output of record 1
\* differs from its input on balance, records 1 and 2 differ on id and
\* balance, and record 3 has no output yet.
BindingLog ==
  << [NewRecord("Account", "open",
                << <<"id", Str("a1")>>, <<"balance", Num(50)>> >>, "f1", FALSE)
        EXCEPT !.output = Out(<< <<"balance", Num(60)>>, <<"tier", Str("gold")>> >>)],
     [NewRecord("Account", "credit",
                << <<"id", Str("a2")>>, <<"amount", Num(10)>> >>, "f1", FALSE)
        EXCEPT !.output = Out(<< <<"id", Str("a2")>>, <<"balance", Num(70)>> >>)],
     NewRecord("Account", "credit",
               << <<"id", Str("a3")>>, <<"amount", Num(1)>> >>, "f1", FALSE) >>

BindingTuples == { <<1>>, <<1, 2>>, <<2, 1>>, <<1, 3>>, <<3, 2, 1>>, <<2, 2>> }

\* Each tuple of records above gives one combination, merged as stated.
BindingTuplesMerged ==
  \A tuple \in BindingTuples :
    LET matching == [i \in 1..Len(tuple) |-> <<tuple[i]>>]
        product == BindingCombinations(BindingLog, matching)
    IN /\ Len(product) = 1
       /\ product[1].recs = tuple
       /\ MergedLastWins(BindingLog, product)

\* C32: the bindings of a record are its input fields overridden by its
\* output fields, and the bindings of a combination are those of its
\* records merged in pattern order, the later pattern winning: for the
\* combinations of the rule a sweep is about to attempt, and for the
\* tuples of records above.
C32_BindingsMergeLastWins ==
  /\ \A p \in Callers :
       task[p].pc = "rule" =>
         LET sync == syncs[task[p].ri]
             matching == AllMatchingActions(actions, actionIndex, sync)
         IN MergedLastWins(actions, BindingCombinations(actions, matching))
  /\ BindingTuplesMerged

\* Rule P is about to be attempted on an Account/open and an
\* Account/credit whose outputs differ on balance, and the combination
\* carries the balance of the credit.
C32_CreditBalanceWins ==
  \E p \in Callers :
    /\ task[p].pc = "rule"
    /\ syncs[task[p].ri].name = "P"
    /\ LET matching == AllMatchingActions(actions, actionIndex, RuleP)
           product == BindingCombinations(actions, matching)
       IN \E n \in 1..Len(product) :
            /\ Get(actions[product[n].recs[1]].output.obj, "balance") = Num(50)
            /\ Get(actions[product[n].recs[2]].output.obj, "balance") = Num(60)
            /\ Get(product[n].b, "balance") = Num(60)


(***************************************************************************)
(* Variable references in the then-templates.                              *)
(***************************************************************************)
\* A value of a template that is a variable reference: a string "?name".
IsReference(v) == v.k = "str" /\ Len(v.s) > 0 /\ SubSeq(v.s, 1, 1) = "?"

\* The field key of a bound value, undefined when the value is no object.
FieldOf(v, key) == IF v.k = "obj" THEN Get(v.o, key) ELSE Undefined

\* The value bound to name: the binding of that name, or for a dotted name
\* of up to three steps the field reached from the binding of its first
\* step.
BoundTo(b, name) ==
  LET steps == SplitDot(name) IN
  CASE Len(steps) = 1 -> Get(b, name)
    [] Len(steps) = 2 -> FieldOf(Get(b, steps[1]), steps[2])
    [] Len(steps) = 3 -> FieldOf(FieldOf(Get(b, steps[1]), steps[2]), steps[3])
    [] OTHER -> Undefined

\* given is what template is after substitution with b: a reference is
\* replaced by the value bound to it, an object keeps its keys in order and
\* is substituted value by value, and any other value but a generator is
\* as it was.
RECURSIVE SubstitutedTo(_, _, _)
SubstitutedTo(template, given, b) ==
  IF IsReference(template)
  THEN given = BoundTo(b, SubSeq(template.s, 2, Len(template.s)))
  ELSE IF template.k = "obj"
  THEN /\ given.k = "obj"
       /\ Len(given.o) = Len(template.o)
       /\ \A i \in 1..Len(template.o) :
            /\ given.o[i][1] = template.o[i][1]
            /\ SubstitutedTo(template.o[i][2], given.o[i][2], b)
  ELSE template.k = "fn" \/ given = template

\* Bindings with values JavaScript takes for false and with an object two
\* levels deep, and a template that refers to them.
SubstBindings ==
  << <<"id", Str("a1")>>, <<"amount", Num(0)>>, <<"memo", Str("")>>,
     <<"flag", Bool(FALSE)>>,
     <<"body", Obj(<< <<"user", Obj(<< <<"name", Str("bob")>>,
                                      <<"admin", Bool(FALSE)>> >>)>>,
                      <<"count", Num(0)>> >>)>> >>

SubstTemplate ==
  << <<"id", Str("?id")>>, <<"amount", Str("?amount")>>, <<"memo", Str("?memo")>>,
     <<"flag", Str("?flag")>>, <<"kind", Str("credit")>>, <<"limit", Num(100)>>,
     <<"who", Str("?body.user.name")>>, <<"missing", Str("?body.owner.name")>>,
     <<"meta", Obj(<< <<"admin", Str("?body.user.admin")>>,
                      <<"count", Str("?body.count")>>,
                      <<"deep", Obj(<< <<"user", Str("?body.user")>>,
                                       <<"text", Str("a?b")>> >>)>> >>)>> >>

SubstResult ==
  << <<"id", Str("a1")>>, <<"amount", Num(0)>>, <<"memo", Str("")>>,
     <<"flag", Bool(FALSE)>>, <<"kind", Str("credit")>>, <<"limit", Num(100)>>,
     <<"who", Str("bob")>>, <<"missing", Undefined>>,
     <<"meta", Obj(<< <<"admin", Bool(FALSE)>>,
                      <<"count", Num(0)>>,
                      <<"deep", Obj(<< <<"user", Obj(<< <<"name", Str("bob")>>,
                                                        <<"admin", Bool(FALSE)>> >>)>>,
                                       <<"text", Str("a?b")>> >>)>> >>)>> >>

\* The template above is substituted to the result above, which is its
\* substitution as defined here.
SubstTemplateReplaced ==
  /\ replaceVariables(SubstTemplate, SubstBindings) = SubstResult
  /\ SubstitutedTo(Obj(SubstTemplate), Obj(SubstResult), SubstBindings)

\* The then-invocation a task has just made, and the bindings it was made
\* with.
JustIssued(p, e) ==
  /\ task[p].pc \in {"nexec", "nret"}
  /\ e.rule = syncs[task[p].ri].name
  /\ e.recs = task[p].combos[task[p].ci].recs
  /\ e.ti = task[p].ti
  /\ e.sweep = sweepNo

\* C33: the input of a then-invocation is its template with every variable
\* reference, at any depth, replaced by the value bound to it (a dotted
\* name resolved step by step into the bound objects) and every other
\* value but a generator unchanged; and so is the substitution of the
\* template above.
C33_ReferencesReplacedAtAnyDepth ==
  /\ \A p \in Callers : \A e \in issued :
       JustIssued(p, e) =>
         SubstitutedTo(Obj(syncs[task[p].ri].then[e.ti].input),
                       Obj(actions[e.rec].input),
                       task[p].combos[task[p].ci].b)
  /\ SubstTemplateReplaced

\* Rule N has credited the account named inside the origin of an audit
\* entry: the input of its invocation holds the values found under the
\* dotted names, at the top level and two objects deep.
C33_DottedNameResolvedInNestedTemplate ==
  \E p \in Callers : \E e \in issued :
    /\ JustIssued(p, e)
    /\ e.rule = "N"
    /\ e.rec \in executed
    /\ Get(actions[e.rec].input, "id") = Str("a1")
    /\ Get(actions[e.rec].input, "note") =
         Obj(<< <<"from", Str("G")>>, <<"by", Str("N")>>,
                <<"ref", Obj(<< <<"acct", Str("a1")>>,
                                <<"ok", Bool(TRUE)>> >>)>> >>)


(***************************************************************************)
(* All patterns are mandatory.                                             *)
(***************************************************************************)
\* Some when-pattern of sync has no candidate record.
LacksCandidates(sync) ==
  \E i \in 1..Len(sync.when) :
    matchWhen(actions, actionIndex, sync.when[i], sync.name) = <<>>

\* C34: when a rule is attempted while one of its when-patterns has no
\* candidate, tryFireSync returns false at once: the attempt issues no
\* then-invocation, marks no record, does not add the rule to the fired
\* rules and changes nothing else of the engine.
C34_MissingPatternFailsAttempt ==
  [][\A p \in Callers :
       ( /\ task[p].pc = "rule"
         /\ task'[p] # task[p]
         /\ LacksCandidates(syncs[task[p].ri]) )
         => /\ task'[p].pc = "ruleRet"
            /\ ~task'[p].fired
            /\ task'[p].ri = task[p].ri
            /\ issued' = issued
            /\ actions' = actions
            /\ firedSyncs' = firedSyncs
            /\ invokedActions' = invokedActions
            /\ conceptState' = conceptState]_vars

\* The attempt of rule P has returned: its first pattern had a candidate,
\* its second had none, and P has issued nothing.
C34_AttemptFailedOnSecondPattern ==
  \E p \in Callers :
    /\ task[p].pc = "ruleRet"
    /\ syncs[task[p].ri].name = "P"
    /\ matchWhen(actions, actionIndex, RuleP.when[1], "P") # <<>>
    /\ matchWhen(actions, actionIndex, RuleP.when[2], "P") = <<>>
    /\ \A e \in issued : e.rule # "P"
    /\ "P" \notin firedSyncs
    /\ \A q \in Callers \ {p} : task[q].pc = "idle"


(***************************************************************************)
(* Every surviving combination fires.                                      *)
(***************************************************************************)
\* C35: in one rule attempt every surviving combination has each
\* then-template executed: when the invocation of a template for an
\* earlier combination was executed, the invocation of the same template
\* for a later combination of the same attempt is executed too, and it is
\* made after the earlier one.
C35_NoCombinationDropped ==
  \A e \in issued : \A d \in issued :
    ( /\ e.rule = d.rule
      /\ e.sweep = d.sweep
      /\ e.ti = d.ti
      /\ e.recs # d.recs
      /\ e.rec < d.rec
      /\ e.rec \in executed )
      => ~SkippedRecord(d.rec)


(***************************************************************************)
(* The signature of loop prevention.                                       *)
(***************************************************************************)
\* Records r and s are invocations of the same action with the same
\* fields and values, in whatever order the fields were written.
SameInvocation(r, s) ==
  /\ actions[r].concept = actions[s].concept
  /\ actions[r].action = actions[s].action
  /\ Range(actions[r].input) = Range(actions[s].input)

\* Record s is a then-invocation of the cascade record r belongs to: no
\* outermost invoke was made after r up to s.
SameCascade(r, s) ==
  /\ r < s
  /\ \A m \in (r + 1)..s : actions[m].syncTriggered

\* C36: the signature is canonical.  A then-invocation with the fields
\* and values of an invocation executed earlier in its cascade is skipped,
\* in whatever order its fields are written; and a then-invocation is
\* skipped only if an invocation with its fields and values was executed
\* earlier in its cascade.
C36_SignatureIsCanonical ==
  /\ \A r \in executed : \A s \in 1..Len(actions) :
       (SameCascade(r, s) /\ SameInvocation(r, s)) => s \notin executed
  /\ \A s \in 1..Len(actions) :
       (actions[s].syncTriggered /\ SkippedRecord(s))
         => \E r \in executed : r < s /\ SameInvocation(r, s)


(***************************************************************************)
(* What counts as a success of a rule.                                     *)
(***************************************************************************)
\* The then-invocations the rule of that name has made.
IssuedByRule(name) == {e \in issued : e.rule = name}

\* C37: a rule whose then-invocations have all been skipped by loop
\* prevention or have thrown is not among the fired rules, and no record
\* carries its mark.
C37_SkippedIsNoSuccess ==
  \A i \in 1..Len(syncs) :
    LET name == syncs[i].name IN
    ( /\ IssuedByRule(name) # {}
      /\ \A e \in IssuedByRule(name) :
           ~InProgress(e) /\ (SkippedRecord(e.rec) \/ Threw(e)) )
      => /\ name \notin firedSyncs
         /\ \A r \in 1..Len(actions) : name \notin actions[r].syncEdges


(***************************************************************************)
(* An invoke of an unregistered concept.                                   *)
(***************************************************************************)
\* C38: an invoke that names an unregistered concept throws and leaves
\* the log and the index as they were, whether it is an outermost invoke
\* or a then-invocation.
C38_UnknownConceptLeavesNoRecord ==
  [][\A p \in Callers :
       ( \/ /\ task[p].pc = "idle"
            /\ task'[p].pc = "idle"
            /\ task'[p].result = [kind |-> "throw", msg |-> "concept not found"]
            /\ task'[p] # task[p]
         \/ /\ task[p].pc = "then"
            /\ task'[p].pc = "nret"
            /\ task'[p].ret = "threw" )
         => /\ actions' = actions
            /\ actionIndex' = actionIndex]_vars


(***************************************************************************)
(* The event bus: conditions are met by the events of the flow only.       *)
(***************************************************************************)
Started(f, i) == busLog[i].op = "startFlow" /\ busLog[i].flowId = f
Ended(f, i) == busLog[i].op = "endFlow" /\ busLog[i].flowId = f

\* After the first n calls flow f has been started and not ended since.
ActiveAfter(f, n) ==
  \E i \in 1..n : Started(f, i) /\ \A j \in (i + 1)..n : ~Ended(f, j)

\* Call i emitted an event under f while f was started and not ended, and
\* f has not been ended or started again since.
EmittedInFlow(f, i) ==
  /\ busLog[i].op = "emitAction"
  /\ busLog[i].flowId = f
  /\ busLog[i].event.flowId = f
  /\ ActiveAfter(f, i - 1)
  /\ \A j \in (i + 1)..Len(busLog) : ~Started(f, j) /\ ~Ended(f, j)

IsVariable(v) == v.k = "str" /\ Len(v.s) > 0 /\ SubSeq(v.s, 1, 1) = "?"

\* Every field the pattern gives a value other than a variable for is
\* that value in obj.
LiteralsAgree(obj, pattern) ==
  \A n \in 1..Len(pattern) :
    IsVariable(pattern[n][2]) \/ Get(obj, pattern[n][1]) = pattern[n][2]

Satisfies(event, condition) ==
  /\ event.concept = condition.concept
  /\ event.action = condition.action
  /\ LiteralsAgree(event.args, condition.args)
  /\ LiteralsAgree(event.result, condition.result)

\* C39: checkFlowConditions(f, conditions) reports a match only if f has
\* been started and not ended and every condition is satisfied by an
\* event emitted under f during that life of f; and a flow holds only
\* events emitted under its own id.
C39_ConditionsMetWithinFlow ==
  /\ checked.result.matched =>
       /\ ActiveAfter(checked.flowId, Len(busLog))
       /\ \A c \in 1..Len(checked.conditions) :
            \E i \in 1..Len(busLog) :
              /\ EmittedInFlow(checked.flowId, i)
              /\ Satisfies(busLog[i].event, checked.conditions[c])
  /\ \A f \in DOMAIN flows :
       /\ ActiveAfter(f, Len(busLog))
       /\ \A n \in 1..Len(flows[f]) : flows[f][n].flowId = f
  /\ \A f \in FlowIds \ DOMAIN flows : ~ActiveAfter(f, Len(busLog))

\* Both conditions were met for f1 by its own two events while an event
\* that satisfies the first was also emitted under f2.
C39_MatchedAmidOtherFlow ==
  /\ checked.flowId = "f1"
  /\ Len(checked.conditions) = 2
  /\ checked.result.matched
  /\ Get(checked.result.bindings, "?user") = Str("u1")
  /\ \E i \in 1..Len(busLog) :
       /\ busLog[i].op = "emitAction"
       /\ busLog[i].flowId = "f2"
       /\ Satisfies(busLog[i].event, checked.conditions[1])

\* The conditions were asked of f1 after f1 had ended, its events
\* satisfying them all, and no match was reported.
C39_EndedFlowUnmatched ==
  /\ checked.flowId = "f1"
  /\ Len(checked.conditions) = 1
  /\ ~checked.result.matched
  /\ \E i \in 1..Len(busLog) :
       /\ busLog[i].op = "emitAction"
       /\ busLog[i].flowId = "f1"
       /\ ActiveAfter("f1", i - 1)
       /\ Satisfies(busLog[i].event, checked.conditions[1])
  /\ ~ActiveAfter("f1", Len(busLog))


(***************************************************************************)
(* The sweep flag.                                                         *)
(***************************************************************************)
\* C40: the flag is up only while a sweep is running: it is down whenever
\* no outermost invoke is in progress, also after a sweep that ended with
\* an exception, and down when an invoke awaits its execute with no sweep
\* running, so that this invoke sweeps when its execute settles.
C40_FlagDownOutsideSweeps ==
  /\ syncTriggering => Sweeping # {}
  /\ (\A p \in Callers : task[p].pc = "idle") => ~syncTriggering
  /\ \A p \in Callers :
       (task[p].pc = "exec" /\ Sweeping = {}) => SweepStarts(syncTriggering)

\* The sweeps of the first invoke ended with the exception of a filter, the
\* invoke threw it, and the next outermost invoke is in its sweep.
C40_SweepsAfterFailedSweep ==
  \E p \in Callers :
    /\ task[p].pc = "rule"
    /\ task[p].outer > 1
    /\ ~actions[task[p].outer].syncTriggered
    /\ actions[1].output = Out(ErrorMarker(FilterError))
    /\ \A q \in Callers \ {p} :
         task[q].pc = "idle" /\ task[q].result = [kind |-> "throw", msg |-> FilterError]

====
